---- MODULE Spec2Model ----
(***************************************************************************)
(* A model of pypickup: the local PyPI mirror controller                   *)
(* (src/pypickup/controller.py) and the HTML index manager                 *)
(* (src/pypi_cache/pypiCacheManager.py).                                   *)
(*                                                                         *)
(* Two machines share the variables of this module:                        *)
(*   - the fetch client LocalPyPIController._getLink, one action per pass  *)
(*     of its retry loop and one for the code after the loop;              *)
(*   - the commands Add, Update and Remove, one action per statement group *)
(*     between two points where the run can be interrupted.                *)
(* SpecGetLink runs the fetch client alone, step by step, for every value  *)
(* of its retries parameter. Spec runs the commands; each of their fetches *)
(* is one step, the call of _getLink with the default retries run to its   *)
(* return (getLink, built from the same operators as the steps).           *)
(***************************************************************************)
EXTENDS Integers, Sequences, FiniteSets, TLC

\* ------------------------------------------------------------------ bounds
\* SpecGetLink calls _getLink with retries in 0..MaxRetries.
MaxRetries == 3
\* Cap on the requests of one call (only a call with retries = 0 reaches it).
MaxRequests == MaxRetries + 2
\* The longest remote document, in <a> elements.
MaxRemoteLen == 2
\* The commands one behaviour of Spec starts.
MaxOps == 2
\* The longest document, in <a> elements, a function called on its own is given.
MaxDocLen == 2
MaxListed == 3
\* The most rules the settings of the wheel filters hold.
MaxRules == 2

\* ------------------------------------------------------- program constants
\* The default of the parameter `retries` of _getLink.
DefaultRetries == 10

\* ---------------------------------------------------------------- HTTP side
\* requests.Response(): status_code None (written 0) and no content.
NoContent == [kind |-> "none"]
BlankResponse == [status |-> 0, content |-> NoContent]

\* The status codes a server answers with, one or two of each class.
Statuses == {103, 200, 204, 304, 404, 500}
\* The exceptions requests.get raises instead of returning a response.
Exceptions == {"ConnectionError", "Timeout", "RequestException"}
\* response.content: the body that came with the answer to the k-th request of
\* the call. _getLink never looks into it; its caller does.
Body(k) == [kind |-> "body", request |-> k]

\* ------------------------------------------------------------- file names
\* A file name is its stem and its extension: a.whl is [base |-> "a", ext |-> "whl"].
Packages == {"p", "q"}
\* What the remote index of a package can list: for p, wheels and the source
\* archives of one stem; for q, nothing.
RemoteNames(package) ==
  IF package = "p"
  THEN {[base |-> "a", ext |-> "whl"], [base |-> "b", ext |-> "whl"],
        [base |-> "s", ext |-> "zip"], [base |-> "s", ext |-> "tar.gz"]}
  ELSE {}
\* The href the remote index gives for a file name.
RemoteHref(name) == [kind |-> "remote", name |-> name]

\* --------------------------------------------------------- HTML documents
\* A file that does not exist.
Absent == [kind |-> "absent"]
\* An HTML string is the sequence of its <a> and <h1> elements, and whether it
\* has the <html><body> skeleton. The zero-length string has neither.
EmptyStr == [kind |-> "html", skeleton |-> FALSE, tags |-> <<>>]
\* _baseHTML_fromScratch, returned by getBaseHTML
BaseHTML == [kind |-> "html", skeleton |-> TRUE, tags |-> <<>>]
NoHref == [kind |-> "nohref"]
ATag(text, href) == [tag |-> "a", string |-> text, href |-> href]
H1Tag(text) == [tag |-> "h1", string |-> text, href |-> NoHref]
\* The text of the root entry of a package, and of the heading of its index.
PkgText(package) == [base |-> package, ext |-> ""]
HeadText(package) == [base |-> package, ext |-> "Links for"]
\* A faulty variant of LocalHref: a path that is not "./" + name.
LocalHref_absolute(name) == [kind |-> "path", name |-> name]
\* "./" + name
LocalHref(name) == [kind |-> "local", name |-> name]

\* The <a> elements of a document, in document order: soup.find_all("a").
FindAllA(html) == SelectSeq(html.tags, LAMBDA t : t.tag = "a")
\* The entries (text, href) of a document that is on disk, <<>> when it is not.
Entries(file) ==
  IF file = Absent THEN <<>>
  ELSE LET aEntries == FindAllA(file)
       IN [i \in 1..Len(aEntries) |-> <<aEntries[i].string, aEntries[i].href>>]
Keys(file) ==
  LET entries == Entries(file)
  IN {entries[i][1] : i \in 1..Len(entries)}
\* soup.find("a", string=text) finds an element.
FindA(html, text) == \E i \in 1..Len(html.tags) :
                       html.tags[i].tag = "a" /\ html.tags[i].string = text

\* A Python dict is the sequence of its <<key, value>> pairs in insertion order.
DictKeys(d) == {d[i][1] : i \in 1..Len(d)}
\* d[k] = v: a new key goes last, a known key keeps its place and takes v.
DictSet(d, k, v) ==
  IF k \in DictKeys(d)
  THEN [i \in 1..Len(d) |-> IF d[i][1] = k THEN <<k, v>> ELSE d[i]]
  ELSE Append(d, <<k, v>>)

\* HTMLManager.getHRefsList: the loop over soup.find_all("a", href=True)
RECURSIVE HRefsLoop(_, _)
HRefsLoop(tags, resultingDict) ==
  IF tags = <<>> THEN resultingDict
  ELSE HRefsLoop(Tail(tags),
                 IF Head(tags).tag = "a" /\ Head(tags).href # NoHref
                 THEN DictSet(resultingDict, Head(tags).string, Head(tags).href)
                 ELSE resultingDict)
getHRefsList(pypiPackageHTML) == HRefsLoop(pypiPackageHTML.tags, <<>>)

\* A faulty variant of insertAEntry: it does not look for the text first.
insertAEntry_noCheck(htmlString, hrefURL, newEntryText) ==
  IF ~htmlString.skeleton
  THEN [existed |-> FALSE, html |-> EmptyStr, error |-> TRUE]
  ELSE [existed |-> FALSE, error |-> FALSE,
        html |-> [htmlString EXCEPT !.tags = Append(@, ATag(newEntryText, hrefURL))]]
\* A faulty variant of insertAEntry: it inserts in a new document.
insertAEntry_fresh(htmlString, hrefURL, newEntryText) ==
  IF FindA(htmlString, newEntryText)
  THEN [existed |-> TRUE, html |-> EmptyStr, error |-> FALSE]
  ELSE [existed |-> FALSE, error |-> FALSE,
        html |-> [BaseHTML EXCEPT !.tags = <<ATag(newEntryText, hrefURL)>>]]
\* HTMLManager.insertAEntry (what insertHTMLEntry does for an "a" element):
\* [existed, html, error]; error is the AttributeError of soup.html.body when
\* the string has no <html> element.
insertAEntry(htmlString, hrefURL, newEntryText) ==
  IF FindA(htmlString, newEntryText)
  THEN [existed |-> TRUE, html |-> EmptyStr, error |-> FALSE]
  ELSE IF ~htmlString.skeleton
  THEN [existed |-> FALSE, html |-> EmptyStr, error |-> TRUE]
  ELSE [existed |-> FALSE, error |-> FALSE,
        html |-> [htmlString EXCEPT !.tags = Append(@, ATag(newEntryText, hrefURL))]]

\* HTMLManager.removeHTMLEntry for an "a" element: [existed, html].
removeHTMLEntry(htmlString, text) ==
  IF FindA(htmlString, text)
  THEN [existed |-> TRUE,
        html |-> [htmlString EXCEPT
                    !.tags = SelectSeq(@, LAMBDA t : ~(t.tag = "a" /\ t.string = text))]]
  ELSE [existed |-> FALSE, html |-> htmlString]

\* HTMLManager.existsHTMLEntry for an "a" element.
existsHTMLEntry(htmlString, text) == FindA(htmlString, text)

\* _regexZIPAndTars: the extensions of the second group.
ArchiveExts == {"zip", "tar.gz", "tar.bz2", "tar.xz", "tar.Z", "tar"}
\* WheelsManager.isValidWheel with filtersEnabled = "no": the name parses as a wheel.
isValidWheel(wheelName) == wheelName.ext = "whl"

\* A faulty variant of ZipAndTarsLoop: a .zip does not replace the extension a
\* stem already has.
RECURSIVE ZipAndTarsLoop_firstWins(_, _)
ZipAndTarsLoop_firstWins(aEntries, zipAndTarsDict) ==
  IF aEntries = <<>> THEN zipAndTarsDict
  ELSE LET name == Head(aEntries).string
       IN ZipAndTarsLoop_firstWins(Tail(aEntries),
            IF isValidWheel(name) \/ name.ext \notin ArchiveExts THEN zipAndTarsDict
            ELSE IF name.base \in DictKeys(zipAndTarsDict) THEN zipAndTarsDict
            ELSE DictSet(zipAndTarsDict, name.base, name.ext))
\* filterInHTML, the loop over aEntries: the dict zipAndTarsDict, stem -> extension.
RECURSIVE ZipAndTarsLoop(_, _)
ZipAndTarsLoop(aEntries, zipAndTarsDict) ==
  IF aEntries = <<>> THEN zipAndTarsDict
  ELSE LET name == Head(aEntries).string
       IN ZipAndTarsLoop(Tail(aEntries),
            IF isValidWheel(name) \/ name.ext \notin ArchiveExts THEN zipAndTarsDict
            ELSE IF name.ext = "zip" THEN DictSet(zipAndTarsDict, name.base, "zip")
            ELSE IF name.base \in DictKeys(zipAndTarsDict) THEN zipAndTarsDict
            ELSE DictSet(zipAndTarsDict, name.base, name.ext))
\* originalSoup.find("a", string=text): the first such element.
FirstA(aEntries, text) ==
  aEntries[CHOOSE i \in 1..Len(aEntries) :
             /\ aEntries[i].string = text
             /\ \A j \in 1..(i - 1) : aEntries[j].string # text]
\* A faulty variant of filterInHTML: wheels and archives are kept in document
\* order.
filterInHTML_docOrder(htmlContent, package) ==
  LET aEntries == FindAllA(htmlContent)
      zipAndTarsDict == ZipAndTarsLoop(aEntries, <<>>)
  IN [kind |-> "html", skeleton |-> TRUE,
      tags |-> <<H1Tag(HeadText(package))>>
               \o SelectSeq(aEntries, LAMBDA a :
                     \/ isValidWheel(a.string)
                     \/ <<a.string.base, a.string.ext>> \in
                          {zipAndTarsDict[i] : i \in 1..Len(zipAndTarsDict)})]
\* HTMLManager.filterInHTML: the heading, the valid wheels in document order,
\* then one archive per stem in the order of zipAndTarsDict.
filterInHTML(htmlContent, package) ==
  LET aEntries == FindAllA(htmlContent)
      zipAndTarsDict == ZipAndTarsLoop(aEntries, <<>>)
  IN [kind |-> "html", skeleton |-> TRUE,
      tags |-> <<H1Tag(HeadText(package))>>
               \o SelectSeq(aEntries, LAMBDA a : isValidWheel(a.string))
               \o [i \in 1..Len(zipAndTarsDict) |->
                     FirstA(aEntries, [base |-> zipAndTarsDict[i][1],
                                       ext |-> zipAndTarsDict[i][2]])]]

\* A faulty variant of NewPackagesLoop: it keeps the keys the local index has.
RECURSIVE NewPackagesLoop_all(_, _, _)
NewPackagesLoop_all(remote, local, resultingDict) ==
  IF remote = <<>> THEN resultingDict
  ELSE NewPackagesLoop_all(Tail(remote), local,
         DictSet(resultingDict, Head(remote)[1], Head(remote)[2]))
\* Update.__getNewPackagesInRemote: the loop over remoteIndexHRefs.
RECURSIVE NewPackagesLoop(_, _, _)
NewPackagesLoop(remote, local, resultingDict) ==
  IF remote = <<>> THEN resultingDict
  ELSE NewPackagesLoop(Tail(remote), local,
         IF Head(remote)[1] \notin DictKeys(local)
         THEN DictSet(resultingDict, Head(remote)[1], Head(remote)[2])
         ELSE resultingDict)
getNewPackagesInRemote(remote, local) == NewPackagesLoop(remote, local, <<>>)

\* Update.__checkPackagesInLocalButNotInRemote: the names added to the message.
RECURSIVE LocalOnlyLoop(_, _, _, _)
LocalOnlyLoop(remote, local, sourcesOnly, names) ==
  IF local = <<>> THEN names
  ELSE LocalOnlyLoop(remote, Tail(local), sourcesOnly,
         IF Head(local)[1] \notin DictKeys(remote)
            /\ ~(sourcesOnly /\ Head(local)[1].ext = "whl")
         THEN Append(names, Head(local)[1]) ELSE names)
checkPackagesInLocalButNotInRemote(remote, local, sourcesOnly) ==
  LocalOnlyLoop(remote, local, sourcesOnly, <<>>)

\* ------------------------------------------------------ the remote index
RemoteEntries(package) == {ATag(n, RemoteHref(n)) : n \in RemoteNames(package)}
\* The documents https://pypi.org/simple/<package> can answer with, of at most
\* `len` entries.
RemoteDocs(package, len) ==
  {[kind |-> "html", skeleton |-> TRUE, tags |-> t] :
     t \in UNION {[1..n -> RemoteEntries(package)] : n \in 0..len}}
\* The server is not held to one document.
AnyDoc == [kind |-> "any"]
\* What the server answers for a package: the document it is held to, if any.
RemoteAnswers(package, len, fixed) ==
  IF fixed[package] = AnyDoc THEN RemoteDocs(package, len) ELSE {fixed[package]}

VARIABLES
  \* ---- the local repository (the file system under pypiLocalPath)
  rootFile,        \* <pypiLocalPath>/index.html: Absent or its content
  pkgDir,          \* pkgDir[p]: whether <pypiLocalPath>/p/ exists
  pkgIndex,        \* pkgIndex[p]: <pypiLocalPath>/p/index.html, Absent or its content
  files,           \* files[p]: the artifact files of p/, name -> "empty" | "full"
  \* ---- the command in progress
  cmd,             \* "none" | "add" | "update" | "remove"
  packageName,     \* self.packageName
  onlySources,     \* self.onlySources
  pc,              \* the statement the command is at; "idle" between commands
  outcome,         \* how the command ended: [kind, at]
  indexHTML,       \* the HTML string in memory (htmlUpdated, updatedHTML)
  remoteHTML,      \* the decoded remote document (pypiPackageHTMLStr, pypiRemoteIndexStr)
  packagesToDownload,  \* the dict packagesToDownload, as a sequence of <<key, href>>
  fileIdx,         \* the position of the loop of _downloadFilesInLocalPath
  remoteIndexHRefs,    \* the local remoteIndexHRefs (linksToDownload in Add)
  localIndexHRefs,     \* the local localIndexHRefs
  warnings,        \* the names listed in additionalPackagesMessage
  \* ---- history of the command in progress, kept for the claims
  docFetch,        \* "none" | "ok" | "failed": the fetch of the remote document
  rootAtStart,     \* the root index when the command started
  docAtStart,      \* the package index when the command started
  filesAtStart,    \* the names of the artifact files when the command started
  committed,       \* the package index as of the last completed write
  failNames,       \* the entries whose fetch returned a failure in this run
  wroteNames,      \* the entries whose fetch returned a success in this run
  opsLeft,         \* the commands that may still be started
  remoteLen,       \* the longest remote document, in <a> elements, of this behaviour
  remoteFixed,     \* remoteFixed[p]: the one document of the remote for p, or AnyDoc
  everCommitted,   \* everCommitted[p]: the keys written to p/index.html since it was created
  \* ---- one call of a function of HTMLManager or WheelsManager on its own
  callIn,          \* the arguments of the call, NoCall when there is none
  callOut,         \* what the call has returned so far
  \* ---- one call of _getLink
  glpc,            \* "none" | "while" (line 126) | "after" (line 148) | "done"
  linkURL,         \* the parameter linkURL
  retries,         \* the parameter retries
  retriesCounter,  \* the local retriesCounter
  again,           \* the local again
  response,        \* the local response: [status, content]
  result,          \* the returned tuple: [ok, status, content]
  requests,        \* history: the requests.get calls of this call so far
  prefixFails,     \* history: the attempts that raised before the first that did not
  firstNonRaise    \* history: the first attempt that did not raise, or NoOutcome

fsVars == <<rootFile, pkgDir, pkgIndex, files>>
cmdVars == <<cmd, packageName, onlySources, pc, outcome, indexHTML, remoteHTML,
             packagesToDownload, fileIdx, remoteIndexHRefs, localIndexHRefs, warnings>>
callVars == <<callIn, callOut>>
envVars == <<opsLeft, remoteLen, remoteFixed, callVars>>
histVars == <<docFetch, rootAtStart, docAtStart, filesAtStart, committed, failNames,
              wroteNames, everCommitted, envVars>>
glVars == <<glpc, linkURL, retries, retriesCounter, again, response, result,
            requests, prefixFails, firstNonRaise>>

vars == <<fsVars, cmdVars, histVars, glVars>>

NoResult == [ok |-> FALSE, status |-> "none", content |-> NoContent]
NoOutcome == [kind |-> "none", exc |-> "none", status |-> 0]
TestURL == [kind |-> "test"]

\* One requests.get: it raises (no response object is bound), or a response
\* with a status comes back.
Raised(e) == [kind |-> "exc", exc |-> e, status |-> 0]
Answered(s) == [kind |-> "resp", exc |-> "none", status |-> s]
Outcomes == {Raised(e) : e \in Exceptions} \cup {Answered(s) : s \in Statuses}

\* response.raise_for_status() raises HTTPError for 4xx and 5xx.
RaiseForStatus(status) == status >= 400 /\ status < 600

\* Whether the attempt (requests.get, then raise_for_status) raises.
Raises(o) == o.kind = "exc" \/ RaiseForStatus(o.status)

\* The variable response after the attempt: bound only when requests.get returned.
Rebound(resp, o, k) ==
  IF o.kind = "resp" THEN [status |-> o.status, content |-> Body(k)] ELSE resp

\* A faulty variant of LoopExhausted: one more pass of the loop.
LoopExhausted_late(counter) == counter < 0
\* line 128: if retriesCounter == 0: break
LoopExhausted(counter) == counter = 0

\* A faulty variant of AgainAfter: the loop goes on after an answer too.
AgainAfter_always(raised) == TRUE
\* lines 140 and 142: again = False at the end of the try, again = True in except
AgainAfter(raised) == raised

\* line 148: if response.status_code != 200
NeedsLastTry(resp) == resp.status # 200

\* lines 158-165: the except clauses of the last attempt, in their order
Classify(o) ==
  IF o.kind = "resp" THEN "HTTP Error"
  ELSE IF o.exc = "ConnectionError" THEN "Error Connecting"
  ELSE IF o.exc = "Timeout" THEN "Timeout Error"
  ELSE "OOps: Something Else"

\* lines 152-167: what the call returns after its last attempt
LastTry(resp, o, k) ==
  IF Raises(o)
  THEN [ok |-> FALSE, status |-> Classify(o), content |-> Rebound(resp, o, k).content]
  ELSE [ok |-> TRUE, status |-> "200 OK", content |-> Rebound(resp, o, k).content]

\* History of the call, kept for the claims about it.
Record(o) ==
  /\ requests' = requests + 1
  /\ prefixFails' = IF firstNonRaise = NoOutcome /\ Raises(o)
                    THEN prefixFails + 1 ELSE prefixFails
  /\ firstNonRaise' = IF firstNonRaise = NoOutcome /\ ~Raises(o)
                      THEN o ELSE firstNonRaise

\* lines 122-125: the call and the initialisation of the locals
GetLinkEnter(url, r) ==
  /\ glpc' = "while"
  /\ linkURL' = url
  /\ retries' = r
  /\ retriesCounter' = r
  /\ again' = TRUE
  /\ response' = BlankResponse
  /\ result' = NoResult
  /\ requests' = 0
  /\ prefixFails' = 0
  /\ firstNonRaise' = NoOutcome

\* The state of the fetch client when no call is in progress.
GetLinkIdle ==
  /\ glpc = "none"
  /\ linkURL = TestURL
  /\ retries = 0
  /\ retriesCounter = 0
  /\ again = FALSE
  /\ response = BlankResponse
  /\ result = NoResult
  /\ requests = 0
  /\ prefixFails = 0
  /\ firstNonRaise = NoOutcome

\* lines 126-146: one pass of `while again`
GetLinkIterate ==
  /\ glpc = "while"
  /\ requests < MaxRequests
  /\ retriesCounter' = retriesCounter - 1
  /\ IF LoopExhausted(retriesCounter - 1)
     THEN /\ glpc' = "after"
          /\ UNCHANGED <<again, response, requests, prefixFails, firstNonRaise>>
     ELSE \E o \in Outcomes :
            /\ response' = Rebound(response, o, requests + 1)
            /\ again' = AgainAfter(Raises(o))
            /\ glpc' = IF AgainAfter(Raises(o)) THEN "while" ELSE "after"
            /\ Record(o)
  /\ UNCHANGED <<linkURL, retries, result>>
  /\ UNCHANGED <<fsVars, cmdVars, histVars>>

\* lines 148-167: the last attempt, if the loop left no 200, and the return
GetLinkFinish ==
  /\ glpc = "after"
  /\ IF NeedsLastTry(response)
     THEN \E o \in Outcomes :
            /\ response' = Rebound(response, o, requests + 1)
            /\ result' = LastTry(response, o, requests + 1)
            /\ Record(o)
     ELSE /\ result' = [ok |-> TRUE, status |-> "200 OK", content |-> response.content]
          /\ UNCHANGED <<response, requests, prefixFails, firstNonRaise>>
  /\ glpc' = "done"
  /\ UNCHANGED <<linkURL, retries, retriesCounter, again>>
  /\ UNCHANGED <<fsVars, cmdVars, histVars>>

\* ------------------------------------------- _getLink, run to its return
\* The answers of a server to the successive requests of one call: it fails
\* the first `outage` requests with `failure` and answers `answer` from then on.
ServerAnswers(outage, failure, answer) ==
  [k \in 1..(DefaultRetries + 2) |-> IF k <= outage THEN failure ELSE answer]
Outages == {0, 1, DefaultRetries - 1, DefaultRetries}
FetchAnswers ==
  {ServerAnswers(outage, failure, answer) :
     outage \in Outages,
     failure \in {Raised("ConnectionError"), Answered(404)},
     answer \in {Answered(200), Answered(204)}}

\* lines 126-146 run to the end of the loop, after k requests so far.
RECURSIVE GetLinkLoop(_, _, _, _)
GetLinkLoop(counter, resp, k, answers) ==
  IF LoopExhausted(counter - 1) THEN [response |-> resp, requests |-> k]
  ELSE IF AgainAfter(Raises(answers[k + 1]))
  THEN GetLinkLoop(counter - 1, Rebound(resp, answers[k + 1], k + 1), k + 1, answers)
  ELSE [response |-> Rebound(resp, answers[k + 1], k + 1), requests |-> k + 1]

\* _getLink(linkURL, retries = r) against a server that gives `answers`: the
\* tuple it returns. The commands call it with the default retries.
getLink(r, answers) ==
  LET loop == GetLinkLoop(r, BlankResponse, 0, answers)
  IN IF NeedsLastTry(loop.response)
     THEN LastTry(loop.response, answers[loop.requests + 1], loop.requests + 1)
     ELSE [ok |-> TRUE, status |-> "200 OK", content |-> loop.response.content]

\* What a caller that only tests `ok` can see of one call with the default retries.
FetchedOk == {getLink(DefaultRetries, answers).ok : answers \in FetchAnswers}

\* ---------------------------------------------------------------- commands
runVars == <<cmd, packageName, onlySources>>
locVars == <<indexHTML, remoteHTML, packagesToDownload, fileIdx, remoteIndexHRefs,
             localIndexHRefs, warnings>>
startVars == <<rootAtStart, docAtStart, filesAtStart>>
tallyVars == <<failNames, wroteNames>>

NotEnded == [kind |-> "none", at |-> "none"]

\* The state before any command: no repository on disk; `ops` commands can be
\* started and the remote documents have at most `len` entries.
Start(ops, len, fixed) ==
  /\ rootFile = Absent
  /\ pkgDir = [p \in Packages |-> FALSE]
  /\ pkgIndex = [p \in Packages |-> Absent]
  /\ files = [p \in Packages |-> <<>>]
  /\ cmd = "none" /\ packageName = "p" /\ onlySources = FALSE
  /\ pc = "idle" /\ outcome = NotEnded
  /\ indexHTML = EmptyStr /\ remoteHTML = EmptyStr
  /\ packagesToDownload = <<>> /\ fileIdx = 0
  /\ remoteIndexHRefs = <<>> /\ localIndexHRefs = <<>> /\ warnings = <<>>
  /\ docFetch = "none"
  /\ rootAtStart = Absent /\ docAtStart = Absent /\ filesAtStart = {}
  /\ committed = Absent
  /\ failNames = {} /\ wroteNames = {}
  /\ opsLeft = ops /\ remoteLen = len /\ remoteFixed \in fixed
  /\ everCommitted = [p \in Packages |-> {}]
  /\ GetLinkIdle

\* No function is called on its own.
NoCall == [fn |-> "none"]
NoCalls == callIn = NoCall /\ callOut = NoCall

Init == Start(MaxOps, MaxRemoteLen, {[p \in Packages |-> AnyDoc]}) /\ NoCalls
\* One command more, over remote documents of at most one entry.
InitLong == Start(MaxOps + 1, 1, {[p \in Packages |-> AnyDoc]}) /\ NoCalls
\* One command more, against a remote that does not change: each package has
\* one document for the whole behaviour.
InitSame ==
  /\ Start(MaxOps + 1, MaxRemoteLen,
           {f \in [Packages -> UNION {RemoteDocs(p, MaxRemoteLen) : p \in Packages}] :
              \A p \in Packages : f[p] \in RemoteDocs(p, MaxRemoteLen)})
  /\ NoCalls

\* The command line starts a command: parseScriptArguments sets the attributes.
Begin(command, package, sourcesOnly, first) ==
  /\ pc = "idle" /\ opsLeft > 0
  /\ cmd' = command /\ packageName' = package /\ onlySources' = sourcesOnly
  /\ pc' = first
  /\ opsLeft' = opsLeft - 1 /\ UNCHANGED <<remoteLen, remoteFixed, callVars>>
  /\ rootAtStart' = rootFile
  /\ docAtStart' = pkgIndex[package]
  /\ filesAtStart' = DOMAIN files[package]
  /\ committed' = pkgIndex[package]
  /\ UNCHANGED <<fsVars, outcome, locVars, docFetch, tallyVars, everCommitted, glVars>>

\* The command ends here: it returns, or an exception leaves it.
End(kind) ==
  /\ pc' = "end"
  /\ outcome' = [kind |-> kind, at |-> pc]

\* _writeFileFromTheStart, lines 170-171: seek(0) and truncate(0) empty the file.
Truncated == EmptyStr
\* A faulty variant of FileAfterWrite: the text does not reach the file.
FileAfterWrite_dropped(content, textToWrite) == content
\* _writeFileFromTheStart, line 172: write(textToWrite) on the emptied file.
FileAfterWrite(content, textToWrite) == textToWrite

\* packageExists: the root index exists and lists the package.
packageExists(package) ==
  /\ rootFile # Absent
  /\ existsHTMLEntry(rootFile, PkgText(package))

\* ------------------------------------------------------------------- Add
\* The caller of Add: initLocalRepo, canAddNewPackage and, if it says so, addPackage.
AddStart ==
  \E package \in Packages : Begin("add", package, FALSE, "initLocalRepo")

\* Add.initLocalRepo: the directories and the root index file, if needed.
InitLocalRepo ==
  /\ cmd = "add" /\ pc = "initLocalRepo"
  /\ pkgDir' = [pkgDir EXCEPT ![packageName] = TRUE]
  /\ rootFile' = IF rootFile = Absent THEN EmptyStr ELSE rootFile
  /\ pc' = "canAddNewPackage"
  /\ UNCHANGED <<pkgIndex, files, runVars, outcome, locVars, histVars, glVars>>

\* Add.__addEntryToBaseHTMLFile up to the truncation in _writeFileFromTheStart;
\* canAddNewPackage returning False ends the command.
AddEntryToBaseHTMLFile ==
  /\ cmd = "add" /\ pc = "canAddNewPackage"
  /\ LET htmlContent == IF rootFile = EmptyStr THEN BaseHTML ELSE rootFile
         ins == insertAEntry(htmlContent, LocalHref(packageName), PkgText(packageName))
     IN IF ins.error
        THEN /\ End("AttributeError")
             /\ UNCHANGED <<rootFile, indexHTML>>
        ELSE IF ins.existed
        THEN /\ End("already tracked")
             /\ UNCHANGED <<rootFile, indexHTML>>
        ELSE /\ rootFile' = Truncated
             /\ indexHTML' = ins.html
             /\ pc' = "root_write"
             /\ UNCHANGED outcome
  /\ UNCHANGED <<pkgDir, pkgIndex, files, runVars, remoteHTML, packagesToDownload,
                 fileIdx, remoteIndexHRefs, localIndexHRefs, warnings, histVars,
                 glVars>>

\* Add.__addEntryToBaseHTMLFile, the write of line 323 and the close.
AddRootWrite ==
  /\ cmd = "add" /\ pc = "root_write"
  /\ rootFile' = FileAfterWrite(rootFile, indexHTML)
  /\ pc' = "addPackage"
  /\ UNCHANGED <<pkgDir, pkgIndex, files, runVars, outcome, locVars, histVars, glVars>>

\* Add.addPackage, lines 341-352: the remote document is fetched; a failure is
\* printed and line 347 then reads pypiPackageHTMLStr, which was never bound;
\* otherwise the document is filtered and the package index is opened with "w".
AddPackage ==
  /\ cmd = "add" /\ pc = "addPackage"
  /\ \E ok \in FetchedOk :
       IF ~ok
       THEN /\ docFetch' = "failed"
            /\ End("UnboundLocalError")
            /\ UNCHANGED <<fsVars, locVars, everCommitted>>
       ELSE \E pypiPackageHTML \in RemoteAnswers(packageName, remoteLen, remoteFixed) :
             /\ docFetch' = "ok"
             /\ remoteHTML' = pypiPackageHTML
             /\ packagesToDownload' =
                  getHRefsList(filterInHTML(pypiPackageHTML, packageName))
             /\ indexHTML' = [BaseHTML EXCEPT
                                !.tags = <<H1Tag(HeadText(packageName))>>]
             /\ pkgIndex' = [pkgIndex EXCEPT ![packageName] = EmptyStr]
             /\ everCommitted' = [everCommitted EXCEPT ![packageName] = {}]
             /\ pc' = "addPackage_write"
             /\ UNCHANGED <<rootFile, pkgDir, files, fileIdx, remoteIndexHRefs,
                            localIndexHRefs, warnings, outcome>>
  /\ UNCHANGED <<runVars, startVars, committed, tallyVars, envVars, glVars>>

\* Add.addPackage, line 353: the heading is written; line 355 enters the loop.
AddPackageWrite ==
  /\ cmd = "add" /\ pc = "addPackage_write"
  /\ pkgIndex' = [pkgIndex EXCEPT ![packageName] = FileAfterWrite(@, indexHTML)]
  /\ committed' = indexHTML
  /\ fileIdx' = 1
  /\ pc' = "download"
  /\ UNCHANGED <<rootFile, pkgDir, files, runVars, outcome, indexHTML, remoteHTML,
                 packagesToDownload, remoteIndexHRefs, localIndexHRefs, warnings,
                 docFetch, startVars, tallyVars, envVars, everCommitted, glVars>>

\* ------------------------------------------- _downloadFilesInLocalPath
\* A faulty variant of ContinueAfterFailure: a failure ends the loop.
ContinueAfterFailure_abort(i, n) == n + 1
\* line 191 continuing after a failure (line 203): the next entry.
ContinueAfterFailure(i, n) == i + 1

\* lines 185-191 and 205-206: no entry is left, the tally is printed and the
\* caller closes the index file.
DownloadDone ==
  /\ cmd \in {"add", "update"} /\ pc = "download"
  /\ fileIdx > Len(packagesToDownload)
  /\ End("done")
  /\ UNCHANGED <<fsVars, runVars, locVars, histVars, glVars>>

\* lines 191-196: the entry at fileIdx is fetched; a failure is printed and the
\* loop goes on; on success the artifact file is opened with "wb".
DownloadFetch ==
  /\ cmd \in {"add", "update"} /\ pc = "download"
  /\ fileIdx <= Len(packagesToDownload)
  /\ \E ok \in FetchedOk :
     LET fileName == packagesToDownload[fileIdx][1]
     IN IF ~ok
        THEN /\ failNames' = failNames \cup {fileName}
             /\ fileIdx' = ContinueAfterFailure(fileIdx, Len(packagesToDownload))
             /\ pc' = "download"
             /\ UNCHANGED <<files, wroteNames>>
        ELSE /\ files' = [files EXCEPT ![packageName] =
                            [n \in DOMAIN files[packageName] \cup {fileName} |->
                               IF n = fileName THEN "empty" ELSE files[packageName][n]]]
             /\ wroteNames' = wroteNames \cup {fileName}
             /\ pc' = "download_file"
             /\ UNCHANGED <<failNames, fileIdx>>
  /\ UNCHANGED <<rootFile, pkgDir, pkgIndex, runVars, outcome, indexHTML,
                 remoteHTML, packagesToDownload, remoteIndexHRefs, localIndexHRefs, warnings,
                 docFetch, startVars, committed, envVars, everCommitted, glVars>>

\* A faulty variant of DownloadWriteFile: the content is not written before
\* the entry is inserted.
DownloadWriteFile_notWritten ==
  /\ cmd \in {"add", "update"} /\ pc = "download_file"
  /\ pc' = "download_index"
  /\ UNCHANGED <<rootFile, pkgDir, pkgIndex, files, runVars, outcome, locVars,
                 histVars, glVars>>
\* line 197: the content is written and the artifact file closed.
DownloadWriteFile ==
  /\ cmd \in {"add", "update"} /\ pc = "download_file"
  /\ files' = [files EXCEPT ![packageName][packagesToDownload[fileIdx][1]] = "full"]
  /\ pc' = "download_index"
  /\ UNCHANGED <<rootFile, pkgDir, pkgIndex, runVars, outcome, locVars, histVars,
                 glVars>>

\* __addPackageToIndex, lines 175-176 up to the truncation: the entry is
\* inserted in the string in memory and the index file emptied.
AddPackageToIndex ==
  /\ cmd \in {"add", "update"} /\ pc = "download_index"
  /\ LET fileName == packagesToDownload[fileIdx][1]
         ins == insertAEntry(indexHTML, LocalHref(fileName), fileName)
     IN IF ins.error
        THEN /\ End("AttributeError")
             /\ UNCHANGED <<pkgIndex, indexHTML>>
        ELSE /\ indexHTML' = ins.html
             /\ pkgIndex' = [pkgIndex EXCEPT ![packageName] = Truncated]
             /\ pc' = "download_index_write"
             /\ UNCHANGED outcome
  /\ UNCHANGED <<rootFile, pkgDir, files, runVars, remoteHTML, packagesToDownload,
                 fileIdx, remoteIndexHRefs, localIndexHRefs, warnings, histVars,
                 glVars>>

\* __addPackageToIndex, the write of line 172, and lines 199-203.
WriteIndex ==
  /\ cmd \in {"add", "update"} /\ pc = "download_index_write"
  /\ pkgIndex' = [pkgIndex EXCEPT ![packageName] = FileAfterWrite(@, indexHTML)]
  /\ committed' = indexHTML
  /\ everCommitted' = [everCommitted EXCEPT
                         ![packageName] = @ \cup Keys(pkgIndex'[packageName])]
  /\ fileIdx' = fileIdx + 1
  /\ pc' = "download"
  /\ UNCHANGED <<rootFile, pkgDir, files, runVars, outcome, indexHTML, remoteHTML,
                 packagesToDownload, remoteIndexHRefs, localIndexHRefs, warnings,
                 docFetch, startVars, tallyVars, envVars, glVars>>

\* ---------------------------------------------------------------- Update
\* The caller of Update: the package must be tracked (packageExists).
UpdateStart ==
  /\ pc = "idle"
  /\ \E package \in Packages, sourcesOnly \in BOOLEAN :
       /\ packageExists(package)
       /\ Begin("update", package, sourcesOnly, "synchronizeWithRemote")

\* Update.synchronizeWithRemote, lines 393-406: the remote document is fetched
\* and a failure printed; the local index is read (line 399 raises if it does
\* not exist); line 402 then reads pypiRemoteIndexStr, which a failure never
\* bound; otherwise the plan is made.
SynchronizeWithRemote ==
  /\ cmd = "update" /\ pc = "synchronizeWithRemote"
  /\ \E ok \in FetchedOk :
       /\ docFetch' = IF ok THEN "ok" ELSE "failed"
       /\ IF pkgIndex[packageName] = Absent
          THEN /\ End("FileNotFoundError")
               /\ UNCHANGED locVars
          ELSE IF ~ok
          THEN /\ End("UnboundLocalError")
               /\ UNCHANGED locVars
          ELSE \E pypiRemoteIndex \in RemoteAnswers(packageName, remoteLen, remoteFixed) :
               LET pypiLocalIndex == pkgIndex[packageName]
                   remote == getHRefsList(filterInHTML(pypiRemoteIndex, packageName))
                   local == getHRefsList(pypiLocalIndex)
               IN /\ remoteHTML' = pypiRemoteIndex
                  /\ remoteIndexHRefs' = remote
                  /\ localIndexHRefs' = local
                  /\ packagesToDownload' = getNewPackagesInRemote(remote, local)
                  /\ warnings' = checkPackagesInLocalButNotInRemote(
                                    remote, local, onlySources)
                  /\ indexHTML' = pypiLocalIndex
                  /\ pc' = "synchronize_plan"
                  /\ UNCHANGED <<fileIdx, outcome>>
  /\ UNCHANGED <<fsVars, runVars, startVars, committed, tallyVars, envVars, everCommitted, glVars>>

\* Update.synchronizeWithRemote, lines 408-409: the local index is opened with
\* "r+" and _downloadFilesInLocalPath entered.
SynchronizeDownload ==
  /\ cmd = "update" /\ pc = "synchronize_plan"
  /\ fileIdx' = 1
  /\ pc' = "download"
  /\ UNCHANGED <<fsVars, runVars, outcome, indexHTML, remoteHTML,
                 packagesToDownload, remoteIndexHRefs, localIndexHRefs, warnings,
                 histVars, glVars>>

\* ---------------------------------------------------------------- Remove
\* The caller of Remove: the repository exists.
RemoveStart ==
  \E package \in Packages :
    /\ rootFile # Absent
    /\ Begin("remove", package, FALSE, "removePackage")

\* A faulty variant of RemoveEntry: the directory is deleted before the root
\* index is touched.
RemoveEntry_dirFirst ==
  /\ cmd = "remove" /\ pc = "removePackage"
  /\ LET rem == removeHTMLEntry(rootFile, PkgText(packageName))
     IN IF ~rem.existed
        THEN /\ End("not tracked")
             /\ UNCHANGED <<pkgDir, pkgIndex, files, indexHTML, everCommitted>>
        ELSE /\ pkgDir' = [pkgDir EXCEPT ![packageName] = FALSE]
             /\ pkgIndex' = [pkgIndex EXCEPT ![packageName] = Absent]
             /\ files' = [files EXCEPT ![packageName] = <<>>]
             /\ everCommitted' = [everCommitted EXCEPT ![packageName] = {}]
             /\ indexHTML' = rem.html
             /\ pc' = "removePackage_write"
             /\ UNCHANGED outcome
  /\ UNCHANGED <<rootFile, runVars, remoteHTML, packagesToDownload, fileIdx,
                 remoteIndexHRefs, localIndexHRefs, warnings, docFetch, startVars,
                 committed, tallyVars, envVars, glVars>>

\* A faulty variant of RemoveEntry: the return of line 428 is missing, and an
\* untracked package goes on to _removeDir.
RemoveEntry_noReturn ==
  /\ cmd = "remove" /\ pc = "removePackage"
  /\ LET rem == removeHTMLEntry(rootFile, PkgText(packageName))
     IN IF ~rem.existed
        THEN /\ pc' = "removeDir"
             /\ UNCHANGED <<rootFile, indexHTML, outcome>>
        ELSE /\ rootFile' = Truncated
             /\ indexHTML' = rem.html
             /\ pc' = "removePackage_write"
             /\ UNCHANGED outcome
  /\ UNCHANGED <<pkgDir, pkgIndex, files, runVars, remoteHTML, packagesToDownload,
                 fileIdx, remoteIndexHRefs, localIndexHRefs, warnings, histVars,
                 glVars>>

\* Remove.removePackage, lines 422-430 up to the truncation: an untracked
\* package is reported and the command returns.
RemoveEntry ==
  /\ cmd = "remove" /\ pc = "removePackage"
  /\ LET rem == removeHTMLEntry(rootFile, PkgText(packageName))
     IN IF ~rem.existed
        THEN /\ End("not tracked")
             /\ UNCHANGED <<rootFile, indexHTML>>
        ELSE /\ rootFile' = Truncated
             /\ indexHTML' = rem.html
             /\ pc' = "removePackage_write"
             /\ UNCHANGED outcome
  /\ UNCHANGED <<pkgDir, pkgIndex, files, runVars, remoteHTML, packagesToDownload,
                 fileIdx, remoteIndexHRefs, localIndexHRefs, warnings, histVars,
                 glVars>>

\* Remove.removePackage, the write of line 430 and the close of the root index.
RemoveRootWrite ==
  /\ cmd = "remove" /\ pc = "removePackage_write"
  /\ rootFile' = FileAfterWrite(rootFile, indexHTML)
  /\ pc' = "removeDir"
  /\ UNCHANGED <<pkgDir, pkgIndex, files, runVars, outcome, locVars, histVars, glVars>>

\* Remove.removePackage, lines 432-434, with _removeDir(directory, True).
RemoveDir ==
  /\ cmd = "remove" /\ pc = "removeDir"
  /\ IF pkgDir[packageName]
     THEN /\ pkgDir' = [pkgDir EXCEPT ![packageName] = FALSE]
          /\ pkgIndex' = [pkgIndex EXCEPT ![packageName] = Absent]
          /\ files' = [files EXCEPT ![packageName] = <<>>]
          /\ everCommitted' = [everCommitted EXCEPT ![packageName] = {}]
     ELSE UNCHANGED <<pkgDir, pkgIndex, files, everCommitted>>
  /\ End("removed")
  /\ UNCHANGED <<rootFile, runVars, locVars, docFetch, startVars, committed,
                 tallyVars, envVars, glVars>>

\* ------------------------------------------------------------ environment
\* The process is gone: only the file system is left for the next command.
Gone ==
  /\ pc' = "idle" /\ outcome' = NotEnded
  /\ cmd' = "none" /\ packageName' = "p" /\ onlySources' = FALSE
  /\ indexHTML' = EmptyStr /\ remoteHTML' = EmptyStr
  /\ packagesToDownload' = <<>> /\ fileIdx' = 0
  /\ remoteIndexHRefs' = <<>> /\ localIndexHRefs' = <<>> /\ warnings' = <<>>
  /\ docFetch' = "none"
  /\ rootAtStart' = Absent /\ docAtStart' = Absent /\ filesAtStart' = {}
  /\ committed' = Absent
  /\ failNames' = {} /\ wroteNames' = {}
  /\ UNCHANGED <<fsVars, envVars, everCommitted, glVars>>

\* The run is interrupted at any statement: whatever is on disk stays as it is.
Interrupt ==
  /\ pc \notin {"idle", "end"}
  /\ Gone

\* The command has ended and its process exits.
Exit ==
  /\ pc = "end"
  /\ Gone

Next ==
  \/ AddStart \/ InitLocalRepo \/ AddEntryToBaseHTMLFile \/ AddRootWrite
  \/ AddPackage \/ AddPackageWrite
  \/ DownloadDone \/ DownloadFetch \/ DownloadWriteFile
  \/ AddPackageToIndex \/ WriteIndex
  \/ UpdateStart \/ SynchronizeWithRemote \/ SynchronizeDownload
  \/ RemoveStart \/ RemoveEntry \/ RemoveRootWrite \/ RemoveDir
  \/ Interrupt \/ Exit

Spec == Init /\ [][Next]_vars

\* The same commands in longer sequences.
SpecLong == InitLong /\ [][Next]_vars

\* The same commands against a remote that does not change.
SpecSame == InitSame /\ [][Next]_vars

\* ------------------------------------------------------------ WheelsManager
\* A Python str is the sequence of its characters; a value of an attribute of
\* a parsed wheel name is a str, or a list of str (the tag attributes).
Str(chars) == [type |-> "str", val |-> chars]
List(strs) == [type |-> "list", val |-> strs]
DigitChars == <<"0", "1", "2", "3", "4", "5", "6", "7", "8", "9">>
IsDigit(c) == \E i \in 1..Len(DigitChars) : DigitChars[i] = c
DigitVal(c) == (CHOOSE i \in 1..Len(DigitChars) : DigitChars[i] = c) - 1
\* sub in s
Contains(s, sub) ==
  \E i \in 0..(Len(s) - Len(sub)) : SubSeq(s, i + 1, i + Len(sub)) = sub
\* s.replace(c, "") for a character c
Without(s, c) == SelectSeq(s, LAMBDA x : x # c)
\* int(s): the value, or the ValueError of a string that is not a number
RECURSIVE DigitsValue(_)
DigitsValue(s) ==
  IF s = <<>> THEN 0
  ELSE DigitsValue(SubSeq(s, 1, Len(s) - 1)) * 10 + DigitVal(s[Len(s)])
IntOf(s) ==
  IF s # <<>> /\ \A i \in 1..Len(s) : IsDigit(s[i])
  THEN [ok |-> TRUE, v |-> DigitsValue(s)]
  ELSE [ok |-> FALSE, v |-> 0]

\* re.sub(r"(<=|>=|>|<)", r"", s), line 56
RECURSIVE StripComparisons(_)
StripComparisons(s) ==
  IF s = <<>> THEN <<>>
  ELSE IF Head(s) \in {"<", ">"}
  THEN IF Len(s) >= 2 /\ s[2] = "=" THEN StripComparisons(Tail(Tail(s)))
       ELSE StripComparisons(Tail(s))
  ELSE <<Head(s)>> \o StripComparisons(Tail(s))

\* WheelsManager.__getLiteralFilter
getLiteralFilter(filter, filterName) ==
  LET filterLiteral == Without(filter, "~")
  IN IF filterName = "python_tags"
     THEN StripComparisons(Without(filterLiteral, "."))
     ELSE filterLiteral

\* WheelsManager.__getFilterVersion: None (written ok = FALSE) on ValueError
getFilterVersion(filterLiteral) == IntOf(filterLiteral)

\* re.sub(rf".*(\d*)", r"\1", pythonTag), line 70: the greedy .* takes the
\* whole tag, the group matches the empty string, and so does the empty match
\* left at the end of the tag.
SubDigitsGroup(pythonTag) == <<>>
\* WheelsManager.__getWheelPythonVersion: int() of that string
getWheelPythonVersion(pythonTag) == IntOf(SubDigitsGroup(pythonTag))

\* WheelsManager.__fulfillFilterCriteria registered for wheelAttribute: str.
\* "True", "False", or the exception that leaves it.
fulfillFilterCriteria_str(wheelAttribute, filter, filterName) ==
  IF filterName # "python_tags" /\ (Contains(filter, <<"<">>) \/ Contains(filter, <<">">>))
  THEN "ValueError"
  ELSE LET filterLiteral == getLiteralFilter(filter, filterName)
       IN IF Contains(filter, <<"~">>)
          THEN IF Contains(wheelAttribute, filterLiteral) THEN "True" ELSE "False"
          ELSE IF filterName # "python_tags" THEN "False"
          ELSE LET filter_pyVersion == getFilterVersion(filterLiteral)
               IN IF ~filter_pyVersion.ok \/ filter_pyVersion.v = 0 THEN "False"
                  ELSE LET wheelAttribute_pyVersion == getWheelPythonVersion(wheelAttribute)
                           w == wheelAttribute_pyVersion.v
                           f == filter_pyVersion.v
                       IN IF ~wheelAttribute_pyVersion.ok THEN "ValueError"
                          ELSE IF Contains(filter, <<"<", "=">>)
                          THEN IF w <= f THEN "True" ELSE "False"
                          ELSE IF Contains(filter, <<">", "=">>)
                          THEN IF w >= f THEN "True" ELSE "False"
                          ELSE IF Contains(filter, <<"<">>)
                          THEN IF w < f THEN "True" ELSE "False"
                          ELSE IF Contains(filter, <<">">>)
                          THEN IF w > f THEN "True" ELSE "False"
                          ELSE "False"

\* WheelsManager.__fulfillFilterCriteria registered for wheelAttribute: List[str]
fulfillFilterCriteria_list(wheelAttribute, filter, filterName) == "False"

\* WheelsManager.__fulfillFilterCriteria: the multimethod dispatches on the
\* type of wheelAttribute.
fulfillFilterCriteria(wheelAttribute, filter, filterName) ==
  IF wheelAttribute.type = "list"
  THEN fulfillFilterCriteria_list(wheelAttribute.val, filter, filterName)
  ELSE fulfillFilterCriteria_str(wheelAttribute.val, filter, filterName)

\* A faulty variant of getDefaultBehaviourForIncludingWheels: the mode itself.
getDefaultBehaviourForIncludingWheels_same(inOrOut) ==
  IF inOrOut = "in" THEN "True" ELSE IF inOrOut = "out" THEN "False" ELSE "ValueError"
\* WheelsManager.__getDefaultBehaviourForIncludingWheels
getDefaultBehaviourForIncludingWheels(inOrOut) ==
  IF inOrOut = "in" THEN "False" ELSE IF inOrOut = "out" THEN "True" ELSE "ValueError"

\* wheelsConfig: the rules are the pairs <<filterKey, filter>> of the settings,
\* in their order. getFilterKeys() gives the keys in the order they first
\* appear, getField(filterKey) the filters of the key.
RECURSIVE FilterKeysLoop(_, _)
FilterKeysLoop(rules, keys) ==
  IF rules = <<>> THEN keys
  ELSE FilterKeysLoop(Tail(rules),
         IF \E i \in 1..Len(keys) : keys[i] = Head(rules)[1] THEN keys
         ELSE Append(keys, Head(rules)[1]))
getFilterKeys(wheelsConfig) == FilterKeysLoop(wheelsConfig.rules, <<>>)
getField(wheelsConfig, filterKey) ==
  LET own == SelectSeq(wheelsConfig.rules, LAMBDA r : r[1] = filterKey)
  IN [i \in 1..Len(own) |-> own[i][2]]

\* WheelsManager.__needToBeIncluded, lines 126-138: the two loops, from the
\* filter at position j of the key at position i.
RECURSIVE NeedToBeIncludedLoop(_, _, _, _)
NeedToBeIncludedLoop(parsedWheel, wheelsConfig, i, j) ==
  LET filterKeys == getFilterKeys(wheelsConfig)
  IN IF i > Len(filterKeys) THEN "no match"
     ELSE LET filterKey == filterKeys[i]
              filtersForWheel == getField(wheelsConfig, filterKey)
          IN IF j > Len(filtersForWheel)
             THEN NeedToBeIncludedLoop(parsedWheel, wheelsConfig, i + 1, 1)
             ELSE LET fulfilled == fulfillFilterCriteria(parsedWheel[filterKey],
                                                         filtersForWheel[j], filterKey)
                  IN IF fulfilled = "True"
                     THEN IF wheelsConfig.inOrOut = "in" THEN "True"
                          ELSE IF wheelsConfig.inOrOut = "out" THEN "False"
                          ELSE "ValueError"
                     ELSE IF fulfilled = "False"
                     THEN NeedToBeIncludedLoop(parsedWheel, wheelsConfig, i, j + 1)
                     ELSE fulfilled
\* WheelsManager.__needToBeIncluded
needToBeIncluded(parsedWheel, wheelsConfig) ==
  LET looped == NeedToBeIncludedLoop(parsedWheel, wheelsConfig, 1, 1)
  IN IF looped = "no match"
     THEN getDefaultBehaviourForIncludingWheels(wheelsConfig.inOrOut)
     ELSE looped

\* A faulty variant of WheelsManager_isValidWheel: filtersEnabled is not looked at.
WheelsManager_isValidWheel_alwaysFilters(wheelName, wheelsConfig) ==
  IF ~wheelName.parses THEN "False"
  ELSE needToBeIncluded(wheelName.parsed, wheelsConfig)
\* WheelsManager.isValidWheel for any settings: wheel_filename.parse_wheel_filename
\* raises InvalidFilenameError for a name that is no wheel file name.
WheelsManager_isValidWheel(wheelName, wheelsConfig) ==
  IF ~wheelName.parses THEN "False"
  ELSE IF wheelsConfig.filtersEnabled = "no" THEN "True"
  ELSE IF wheelsConfig.filtersEnabled # "yes" THEN "ValueError"
  ELSE needToBeIncluded(wheelName.parsed, wheelsConfig)

\* ------------------------------------------------ insertAEntry on its own
\* The documents insertAEntry is called on: the skeleton with at most MaxDocLen
\* <a> elements of different texts, each with a local or a remote href.
HrefOf(k, n) == IF k = "local" THEN LocalHref(n) ELSE RemoteHref(n)
DocTags == {ATag(n, HrefOf(k, n)) : n \in RemoteNames("p"), k \in {"local", "remote"}}
Docs ==
  {[kind |-> "html", skeleton |-> TRUE, tags |-> t] :
     t \in {u \in UNION {[1..n -> DocTags] : n \in 0..MaxDocLen} :
              \A i, j \in 1..Len(u) : i # j => u[i].string # u[j].string}}
InsertInputs ==
  {[fn |-> "insertAEntry", htmlString |-> d, hrefURL |-> HrefOf(k, n),
    newEntryText |-> n] :
     d \in Docs, n \in RemoteNames("p"), k \in {"local", "remote"}}

InitInsert ==
  /\ Start(0, 0, {[p \in Packages |-> AnyDoc]})
  /\ callIn \in InsertInputs /\ callOut = <<>>

\* insertAEntry(htmlString, hrefURL, newEntryText) is called.
InsertCall ==
  /\ callIn.fn = "insertAEntry" /\ Len(callOut) = 0
  /\ callOut' = <<insertAEntry(callIn.htmlString, callIn.hrefURL, callIn.newEntryText)>>
  /\ UNCHANGED <<callIn, fsVars, cmdVars, docFetch, startVars, committed, tallyVars,
                 everCommitted, opsLeft, remoteLen, remoteFixed, glVars>>

\* The caller goes on with the returned string, as __addPackageToIndex does,
\* and inserts the same entry in it.
InsertAgain ==
  /\ callIn.fn = "insertAEntry" /\ Len(callOut) = 1
  /\ callOut' = Append(callOut,
                  insertAEntry(callOut[1].html, callIn.hrefURL, callIn.newEntryText))
  /\ UNCHANGED <<callIn, fsVars, cmdVars, docFetch, startVars, committed, tallyVars,
                 everCommitted, opsLeft, remoteLen, remoteFixed, glVars>>

NextInsert == InsertCall \/ InsertAgain

SpecInsert == InitInsert /\ [][NextInsert]_vars

\* ------------------------------------------------ isValidWheel on its own
\* The names isValidWheel is called on: three wheel file names as
\* wheel_filename.parse_wheel_filename parses them, and a source archive.
ParsedWheel(version, pythonTags, platformTag) ==
  [project |-> Str(<<"n", "p">>), version |-> Str(version),
   python_tags |-> List(pythonTags), abi_tags |-> List(<<<<"n", "o", "n", "e">>>>),
   platform_tags |-> List(<<platformTag>>)]
NotParsed == [kind |-> "InvalidFilenameError"]
WheelNames ==
  { [text |-> "np-1-py39-none-linux_x86_64.whl", parses |-> TRUE,
     parsed |-> ParsedWheel(<<"1">>, <<<<"p", "y", "3", "9">>>>,
                            <<"l", "i", "n", "u", "x", "_", "x", "8", "6", "_", "6", "4">>)],
    [text |-> "np-2-py311-none-win_amd64.whl", parses |-> TRUE,
     parsed |-> ParsedWheel(<<"2">>, <<<<"p", "y", "3", "1", "1">>>>,
                            <<"w", "i", "n", "_", "a", "m", "d", "6", "4">>)],
    [text |-> "np-1-py2.py3-none-any.whl", parses |-> TRUE,
     parsed |-> ParsedWheel(<<"1">>, <<<<"p", "y", "2">>, <<"p", "y", "3">>>>,
                            <<"a", "n", "y">>)],
    [text |-> "np-1.zip", parses |-> FALSE, parsed |-> NotParsed] }
\* The rules of the settings: <<filterKey, filter>>.
FilterRules ==
  { <<"python_tags", <<"<", "=", "3", "1", "0">>>>,
    <<"python_tags", <<">", "3", ".", "9">>>>,
    <<"python_tags", <<"~", "p", "y", "3">>>>,
    <<"platform_tags", <<"~", "w", "i", "n">>>>,
    <<"project", <<"~", "n", "p">>>>,
    <<"project", <<"n", "p">>>>,
    <<"version", <<"~", "1">>>>,
    <<"version", <<"<", "2">>>>,
    <<"abi_tags", <<">", "3">>>> }
WheelsConfigs ==
  {[filtersEnabled |-> e, inOrOut |-> m, rules |-> r] :
     e \in {"yes", "no"}, m \in {"in", "out"},
     r \in UNION {[1..n -> FilterRules] : n \in 0..MaxRules}}
\* The settings a WheelsManager is constructed under, and the name its
\* isValidWheel is called on afterwards.
FilterInputs ==
  {[fn |-> "WheelsManager", wheelName |-> w, wheelsConfig |-> c] :
     w \in WheelNames, c \in WheelsConfigs}

InitFilter ==
  /\ Start(0, 0, {[p \in Packages |-> AnyDoc]})
  /\ callIn \in FilterInputs /\ callOut = <<>>

\* WheelsManager.__checkFilters, lines 45-48: it returns None.
checkFilters(wheelsConfig) == "None"

\* WheelsManager(), lines 32-35: the settings are read and __checkFilters called;
\* an exception of __checkFilters leaves no WheelsManager to call.
WheelsManagerInit ==
  /\ callIn.fn = "WheelsManager" /\ Len(callOut) = 0
  /\ IF checkFilters(callIn.wheelsConfig) = "None"
     THEN /\ callIn' = [callIn EXCEPT !.fn = "isValidWheel"]
          /\ UNCHANGED callOut
     ELSE /\ callIn' = [callIn EXCEPT !.fn = "none"]
          /\ callOut' = <<checkFilters(callIn.wheelsConfig)>>
  /\ UNCHANGED <<fsVars, cmdVars, docFetch, startVars, committed, tallyVars,
                 everCommitted, opsLeft, remoteLen, remoteFixed, glVars>>

\* isValidWheel(wheelName) is called under the settings wheelsConfig.
IsValidWheelCall ==
  /\ callIn.fn = "isValidWheel" /\ Len(callOut) = 0
  /\ callOut' = <<WheelsManager_isValidWheel(callIn.wheelName, callIn.wheelsConfig)>>
  /\ UNCHANGED <<callIn, fsVars, cmdVars, docFetch, startVars, committed, tallyVars,
                 everCommitted, opsLeft, remoteLen, remoteFixed, glVars>>

NextFilter == WheelsManagerInit \/ IsValidWheelCall

SpecFilter == InitFilter /\ [][NextFilter]_vars
\* --------------------------------------------------- filterInHTML on its own
\* The names a remote document lists here: a wheel of distribution and version
\* s, the archives of s in three extensions, and an archive of t.
SWheel == [base |-> "s-py3-none-any", ext |-> "whl"]
ListedNames ==
  {SWheel, [base |-> "s", ext |-> "zip"], [base |-> "s", ext |-> "tar.gz"],
   [base |-> "s", ext |-> "tar.bz2"], [base |-> "t", ext |-> "tar.gz"]}
\* Distribution and version of a name: what parse_wheel_filename gives for a
\* wheel (project and version), and group 1 of _regexZIPAndTars for an archive.
ProjectVersion(name) == IF name = SWheel THEN "s" ELSE name.base
\* The remote documents of at most MaxListed entries, in every order.
ListedDocs ==
  {[kind |-> "html", skeleton |-> TRUE, tags |-> t] :
     t \in UNION {[1..n -> {ATag(m, RemoteHref(m)) : m \in ListedNames}] :
                    n \in 0..MaxListed}}
FilterHTMLInputs ==
  {[fn |-> "filterInHTML", htmlContent |-> d, packageName |-> "p"] : d \in ListedDocs}

InitFilterHTML ==
  /\ Start(0, 0, {[p \in Packages |-> AnyDoc]})
  /\ callIn \in FilterHTMLInputs /\ callOut = <<>>

\* filterInHTML(htmlContent, regexZIPAndTars, packageName) is called.
FilterInHTMLCall ==
  /\ callIn.fn = "filterInHTML" /\ Len(callOut) = 0
  /\ callOut' = <<filterInHTML(callIn.htmlContent, callIn.packageName)>>
  /\ UNCHANGED <<callIn, fsVars, cmdVars, docFetch, startVars, committed, tallyVars,
                 everCommitted, opsLeft, remoteLen, remoteFixed, glVars>>

NextFilterHTML == FilterInHTMLCall

SpecFilterHTML == InitFilterHTML /\ [][NextFilterHTML]_vars


\* ------------------------------------- a document written and read back
\* Here a text or an href is the sequence of its characters, and an HTML string
\* holds its elements as they are written in the file.
StartsWith(s, prefix) ==
  Len(s) >= Len(prefix) /\ SubSeq(s, 1, Len(prefix)) = prefix
\* str.replace(old, new): every occurrence, from the left, none overlapping.
RECURSIVE Replace(_, _, _)
Replace(s, old, new) ==
  IF s = <<>> THEN <<>>
  ELSE IF StartsWith(s, old)
  THEN new \o Replace(SubSeq(s, Len(old) + 1, Len(s)), old, new)
  ELSE <<Head(s)>> \o Replace(Tail(s), old, new)
\* __getDecodedASCII, htmlCodes: (character, code), in the order of the tuple.
htmlCodes ==
  << <<"'", <<"&", "#", "3", "9", ";">> >>,
     <<"\"", <<"&", "q", "u", "o", "t", ";">> >>,
     <<">", <<"&", "g", "t", ";">> >>,
     <<"<", <<"&", "l", "t", ";">> >>,
     <<"&", <<"&", "a", "m", "p", ";">> >> >>
\* __getDecodedASCII, the loop: one replace per code, each on the result of
\* the one before.
RECURSIVE DecodeLoop(_, _)
DecodeLoop(htmlString, codes) ==
  IF codes = <<>> THEN htmlString
  ELSE DecodeLoop(Replace(htmlString, Head(codes)[2], <<Head(codes)[1]>>), Tail(codes))
getDecodedASCII(htmlString) == DecodeLoop(htmlString, htmlCodes)
\* What prettify() writes for a text or an attribute value: "&", "<" and ">"
\* become "&amp;", "&lt;" and "&gt;".
RECURSIVE SubstituteXml(_)
SubstituteXml(s) ==
  IF s = <<>> THEN <<>>
  ELSE (CASE Head(s) = "&" -> htmlCodes[5][2]
          [] Head(s) = "<" -> htmlCodes[4][2]
          [] Head(s) = ">" -> htmlCodes[3][2]
          [] OTHER -> <<Head(s)>>) \o SubstituteXml(Tail(s))
\* What BeautifulSoup(htmlString, "html.parser") reads for a text or an
\* attribute value: each character reference becomes its character, in one pass.
RECURSIVE UnescapeEntities(_)
UnescapeEntities(s) ==
  IF s = <<>> THEN <<>>
  ELSE IF \E k \in 1..Len(htmlCodes) : StartsWith(s, htmlCodes[k][2])
  THEN LET k == CHOOSE k \in 1..Len(htmlCodes) : StartsWith(s, htmlCodes[k][2])
       IN <<htmlCodes[k][1]>>
            \o UnescapeEntities(SubSeq(s, Len(htmlCodes[k][2]) + 1, Len(s)))
  ELSE <<Head(s)>> \o UnescapeEntities(Tail(s))
\* __prettifyHTML: prettify(), then __getDecodedASCII on the string.
prettifyHTML(htmlSoup) ==
  [htmlSoup EXCEPT !.tags =
     [i \in 1..Len(htmlSoup.tags) |->
        [htmlSoup.tags[i] EXCEPT
           !.string = getDecodedASCII(SubstituteXml(@)),
           !.href = IF @ = NoHref THEN @ ELSE getDecodedASCII(SubstituteXml(@))]]]
\* BeautifulSoup(htmlString, "html.parser"): the elements with what the parser
\* reads for their texts and attribute values.
ParseHTML(htmlString) ==
  [htmlString EXCEPT !.tags =
     [i \in 1..Len(htmlString.tags) |->
        [htmlString.tags[i] EXCEPT
           !.string = UnescapeEntities(@),
           !.href = IF @ = NoHref THEN @ ELSE UnescapeEntities(@)]]]
\* insertAEntry from the string read to the string returned.
insertAEntry_text(htmlString, hrefURL, newEntryText) ==
  LET inserted == insertAEntry(ParseHTML(htmlString), hrefURL, newEntryText)
  IN IF inserted.existed \/ inserted.error THEN inserted
     ELSE [inserted EXCEPT !.html = prettifyHTML(@)]
\* removeHTMLEntry from the string read to the string returned.
removeHTMLEntry_text(htmlString, text) ==
  LET removed == removeHTMLEntry(ParseHTML(htmlString), text)
  IN IF removed.existed THEN [removed EXCEPT !.html = prettifyHTML(@)]
     ELSE [existed |-> FALSE, html |-> htmlString]
\* getHRefsList from the string read.
getHRefsList_text(pypiPackageHTML) == getHRefsList(ParseHTML(pypiPackageHTML))

\* The texts inserted: plain names, an ampersand, and a name that reads as a
\* character reference.
EntryTexts == {<<"x">>, <<"y">>, <<"&">>, <<"&", "a", "m", "p", ";">>}
\* "./" + text
LocalHref_text(text) == <<".", "/">> \o text

\* A document starts as getBaseHTML(); d is the sequence of the entries put in
\* it, and opsLeft_doc the number of operations still applied to it.
InitDocument ==
  /\ Start(0, 0, {[p \in Packages |-> AnyDoc]})
  /\ callIn = [fn |-> "document", htmlString |-> BaseHTML, d |-> <<>>,
               opsLeft |-> MaxListed]
  /\ callOut = <<>>

\* An entry is inserted and the returned string is the document.
DocumentInsert ==
  /\ callIn.fn = "document" /\ Len(callOut) = 0 /\ callIn.opsLeft > 0
  /\ \E text \in EntryTexts :
       LET inserted == insertAEntry_text(callIn.htmlString, LocalHref_text(text), text)
       IN callIn' = IF inserted.existed
                    THEN [callIn EXCEPT !.opsLeft = @ - 1]
                    ELSE [callIn EXCEPT !.opsLeft = @ - 1,
                                        !.htmlString = inserted.html,
                                        !.d = Append(@, <<text, LocalHref_text(text)>>)]
  /\ UNCHANGED <<callOut, fsVars, cmdVars, docFetch, startVars, committed, tallyVars,
                 everCommitted, opsLeft, remoteLen, remoteFixed, glVars>>

\* An entry is removed and the returned string is the document.
DocumentRemove ==
  /\ callIn.fn = "document" /\ Len(callOut) = 0 /\ callIn.opsLeft > 0
  /\ \E text \in EntryTexts :
       LET removed == removeHTMLEntry_text(callIn.htmlString, text)
       IN callIn' = IF ~removed.existed
                    THEN [callIn EXCEPT !.opsLeft = @ - 1]
                    ELSE [callIn EXCEPT !.opsLeft = @ - 1,
                                        !.htmlString = removed.html,
                                        !.d = SelectSeq(@, LAMBDA e : e[1] # text)]
  /\ UNCHANGED <<callOut, fsVars, cmdVars, docFetch, startVars, committed, tallyVars,
                 everCommitted, opsLeft, remoteLen, remoteFixed, glVars>>

\* The document is read back: getHRefsList on the string.
DocumentRead ==
  /\ callIn.fn = "document" /\ Len(callOut) = 0
  /\ callOut' = <<getHRefsList_text(callIn.htmlString)>>
  /\ UNCHANGED <<callIn, fsVars, cmdVars, docFetch, startVars, committed, tallyVars,
                 everCommitted, opsLeft, remoteLen, remoteFixed, glVars>>

NextDocument == DocumentInsert \/ DocumentRemove \/ DocumentRead

SpecDocument == InitDocument /\ [][NextDocument]_vars



\* A caller of SpecGetLink: any retries in 0..MaxRetries, on a fresh call.
GetLinkTestCall ==
  /\ glpc \in {"none", "done"}
  /\ \E r \in 0..MaxRetries : GetLinkEnter(TestURL, r)
  /\ UNCHANGED <<fsVars, cmdVars, histVars>>

NextGetLink == GetLinkTestCall \/ GetLinkIterate \/ GetLinkFinish

SpecGetLink == Init /\ [][NextGetLink]_vars

\* ------------------------------------------------------------------ claims

\* C1: for retries >= 1, a call of _getLink in which every attempt fails (the
\* request raises, or raise_for_status raises on a 4xx/5xx answer) never issues
\* more than `retries` requests, and returns after exactly `retries` requests
\* with ok = False.
C1_AllFailExactlyRetries ==
  (glpc # "none" /\ retries >= 1 /\ firstNonRaise = NoOutcome)
    => /\ requests <= retries
       /\ glpc = "done" => (requests = retries /\ result.ok = FALSE)

\* C1 witness: a call with retries >= 2 has returned after only failed attempts.
C1_Witness ==
  /\ glpc = "done" /\ retries >= 2 /\ firstNonRaise = NoOutcome
  /\ requests = retries /\ result.ok = FALSE

\* C2: for retries >= 1 and 0 <= k < retries, when the first k attempts fail and
\* attempt k+1 answers 200, _getLink returns ok = True with the body of that
\* answer after exactly k+1 requests.
C2_FailsThenSuccess ==
  (glpc = "done" /\ retries >= 1 /\ firstNonRaise.status = 200
     /\ prefixFails < retries)
    => /\ result.ok = TRUE
       /\ result.content = Body(prefixFails + 1)
       /\ requests = prefixFails + 1

\* C2 witness: retries - 1 failures, then a 200 on the last allowed attempt.
C2_Witness ==
  /\ glpc = "done" /\ retries >= 2 /\ firstNonRaise.status = 200
  /\ prefixFails = retries - 1 /\ result.ok = TRUE
  /\ result.content = Body(retries) /\ requests = retries

\* C3: during _downloadFilesInLocalPath an entry whose fetch returned a failure
\* is not inserted in the package index (on disk or in memory), no artifact file
\* is opened for it, and the loop goes on with the next entry: every entry
\* before the loop position has been fetched, and a run that ends on its own
\* has fetched every entry of packagesToDownload and committed each success.
C3_FailedArtifactSkipped ==
  LET inLoop == cmd \in {"add", "update"}
                  /\ pc \in {"download", "download_file", "download_index",
                             "download_index_write"}
      ended == cmd \in {"add", "update"} /\ pc = "end" /\ outcome.kind = "done"
  IN (inLoop \/ ended) =>
       /\ \A n \in failNames :
            /\ n \notin Keys(pkgIndex[packageName])
            /\ n \notin Keys(indexHTML)
            /\ n \notin wroteNames
       /\ \A i \in 1..Len(packagesToDownload) :
            i < fileIdx => packagesToDownload[i][1] \in failNames \cup wroteNames
       /\ ended =>
            /\ failNames \cup wroteNames = DictKeys(packagesToDownload)
            /\ wroteNames \subseteq Keys(pkgIndex[packageName])

\* C3 witness: a run has ended on its own in which an entry failed and a later
\* entry was fetched, written and listed in the package index.
C3_Witness ==
  /\ cmd \in {"add", "update"} /\ pc = "end" /\ outcome.kind = "done"
  /\ \E i, j \in 1..Len(packagesToDownload) :
       /\ i < j
       /\ packagesToDownload[i][1] \in failNames
       /\ packagesToDownload[i][1] \notin Keys(pkgIndex[packageName])
       /\ packagesToDownload[j][1] \in wroteNames
       /\ packagesToDownload[j][1] \in Keys(pkgIndex[packageName])
       /\ files[packageName][packagesToDownload[j][1]] = "full"

C5_InterruptedLeavesLastCommit ==
  (cmd \in {"add", "update"}
     /\ pc \in {"download", "download_file", "download_index", "download_index_write"})
    => pkgIndex[packageName] = committed

\* C6: when Update has made its plan, packagesToDownload holds exactly the
\* entries (key with its remote href) of the filtered remote whose key is not a
\* key of the local package index, each once, and the warning lists exactly the
\* local keys that are not keys of the filtered remote, each once, leaving out
\* the keys ending in .whl when onlySources is set, and only those.
C6_SyncPlan ==
  (cmd = "update" /\ pc = "synchronize_plan") =>
     LET localKeys == Keys(docAtStart)
         remoteKeys == DictKeys(remoteIndexHRefs)
         planned == {packagesToDownload[i] : i \in 1..Len(packagesToDownload)}
         warned == {warnings[i] : i \in 1..Len(warnings)}
     IN /\ planned = {remoteIndexHRefs[i] : i \in {j \in 1..Len(remoteIndexHRefs) :
                                                     remoteIndexHRefs[j][1] \notin localKeys}}
        /\ Cardinality(planned) = Len(packagesToDownload)
        /\ warned = {k \in localKeys :
                       k \notin remoteKeys /\ ~(onlySources /\ k.ext = "whl")}
        /\ Cardinality(warned) = Len(warnings)

\* C6 witness: with onlySources set, local keys {a.whl, s.zip} and a filtered
\* remote {b.whl, s.tar.gz} give the plan {b.whl, s.tar.gz} with the remote
\* hrefs and the warning {s.zip}: a.whl is local only and left out.
C6_Witness ==
  /\ cmd = "update" /\ pc = "synchronize_plan" /\ onlySources
  /\ Keys(docAtStart) = {[base |-> "a", ext |-> "whl"], [base |-> "s", ext |-> "zip"]}
  /\ DictKeys(remoteIndexHRefs) = {[base |-> "b", ext |-> "whl"],
                                   [base |-> "s", ext |-> "tar.gz"]}
  /\ packagesToDownload = remoteIndexHRefs
  /\ warnings = <<[base |-> "s", ext |-> "zip"]>>

\* C7: at every point of an Update run outside the overwrite of the index file
\* (between lines 170 and 172), and after the run, the entries the package index
\* had when the run started are all in it, unchanged and in the same order, and
\* every artifact file that existed when the run started still exists.
C7_UpdateKeepsEntries ==
  (cmd = "update" /\ pc # "download_index_write") =>
     LET before == Entries(docAtStart)
         now == Entries(pkgIndex[packageName])
     IN /\ SelectSeq(now, LAMBDA e : \E i \in 1..Len(before) : before[i] = e) = before
        /\ filesAtStart \subseteq DOMAIN files[packageName]

\* C7 witness: an Update run has ended on its own with a failed and a successful
\* fetch, on a package index that had an entry the remote no longer lists.
C7_Witness ==
  /\ cmd = "update" /\ pc = "end" /\ outcome.kind = "done"
  /\ failNames # {} /\ wroteNames # {}
  /\ Keys(docAtStart) \ DictKeys(remoteIndexHRefs) # {}
  /\ Len(Entries(pkgIndex[packageName])) > Len(Entries(docAtStart))

\* C8: while an Add is in _downloadFilesInLocalPath the root index on disk lists
\* the package with the href "./" + packageName and the package index file
\* exists; when the first fetch is about to begin the package index holds the
\* document with the heading and no entry.
C8_TrackedBeforeFirstFetch ==
  (cmd = "add"
     /\ pc \in {"download", "download_file", "download_index", "download_index_write"})
    => /\ rootFile # Absent
       /\ LET entries == Entries(rootFile)
          IN \E i \in 1..Len(entries) :
               entries[i] = <<[base |-> packageName, ext |-> ""],
                              [kind |-> "local", name |-> packageName]>>
       /\ pkgIndex[packageName] # Absent
       /\ (pc = "download" /\ failNames = {} /\ wroteNames = {}) =>
            /\ pkgIndex[packageName].skeleton
            /\ Entries(pkgIndex[packageName]) = <<>>

\* C8 witness: an Add is about to fetch the first of two entries.
C8_Witness ==
  /\ cmd = "add" /\ pc = "download" /\ fileIdx = 1
  /\ Len(packagesToDownload) = 2
  /\ failNames = {} /\ wroteNames = {}
  /\ Keys(rootFile) = {[base |-> packageName, ext |-> ""]}
  /\ pkgIndex[packageName] # Absent

\* C9: when the fetch of the remote document has returned a failure, Add and
\* Update end without an exception, without having fetched an artifact, and
\* with the package index as it was when the command started.
C9_DocFailureEndsNormally ==
  (cmd \in {"add", "update"} /\ pc = "end" /\ docFetch = "failed") =>
     /\ outcome.kind \notin {"UnboundLocalError", "FileNotFoundError", "AttributeError"}
     /\ failNames = {} /\ wroteNames = {}
     /\ pkgIndex[packageName] = docAtStart

\* C10: in every state no two entries of the root index have the same text, and
\* no two entries of a package index have the same text.
C10_NoDuplicateTexts ==
  /\ LET entries == Entries(rootFile)
     IN \A i, j \in 1..Len(entries) : i < j => entries[i][1] # entries[j][1]
  /\ \A p \in Packages :
       LET entries == Entries(pkgIndex[p])
       IN \A i, j \in 1..Len(entries) : i < j => entries[i][1] # entries[j][1]

\* C10 witness: a run whose remote document listed one name twice has ended on
\* its own; the package index lists the name once, and the root index lists
\* two packages.
C10_Witness ==
  /\ cmd \in {"add", "update"} /\ pc = "end" /\ outcome.kind = "done"
  /\ Len(FindAllA(remoteHTML)) = 2
  /\ FindAllA(remoteHTML)[1].string = FindAllA(remoteHTML)[2].string
  /\ wroteNames = {FindAllA(remoteHTML)[1].string}
  /\ Keys(pkgIndex[packageName]) = wroteNames
  /\ Len(Entries(pkgIndex[packageName])) = 1
  /\ Len(Entries(rootFile)) = 2

\* C11: once canAddNewPackage has returned in an Add: if the package was a key
\* of the root index when the command started, it returned False, the command
\* ended there without an exception and the root index file is as it was;
\* otherwise it returned True and the root index holds the entries it had, in
\* their order, followed by the one entry of the package.
C11_CanAddNewPackage ==
  (cmd = "add" /\ pc \notin {"initLocalRepo", "canAddNewPackage", "root_write"}) =>
     IF [base |-> packageName, ext |-> ""] \in Keys(rootAtStart)
     THEN /\ pc = "end"
          /\ outcome = [kind |-> "already tracked", at |-> "canAddNewPackage"]
          /\ rootFile = rootAtStart
     ELSE /\ outcome.kind # "already tracked"
          /\ Entries(rootFile) =
               Append(Entries(rootAtStart),
                      <<[base |-> packageName, ext |-> ""],
                        [kind |-> "local", name |-> packageName]>>)

\* C11 witness: an Add of a package the root index already listed has ended,
\* and the root index is as it was.
C11_Witness ==
  /\ cmd = "add" /\ pc = "end" /\ outcome.kind = "already tracked"
  /\ [base |-> packageName, ext |-> ""] \in Keys(rootAtStart)
  /\ rootFile = rootAtStart

\* C12: a Remove of a package the root index listed when the command started:
\* once the root index has been written it holds the entries it had without
\* the entry of the package, in their order; as long as the root index on disk
\* lists the package its directory, index and artifact files are as they were;
\* the command ends with the directory deleted. And in every state of every
\* command, a package the root index lists has its directory.
C12_RemoveRootThenDirectory ==
  /\ \A p \in Packages : [base |-> p, ext |-> ""] \in Keys(rootFile) => pkgDir[p]
  /\ (cmd = "remove" /\ [base |-> packageName, ext |-> ""] \in Keys(rootAtStart)) =>
       LET key == [base |-> packageName, ext |-> ""]
       IN /\ key \in Keys(rootFile) =>
               /\ pkgIndex[packageName] = docAtStart
               /\ DOMAIN files[packageName] = filesAtStart
          /\ pc \in {"removeDir", "end"} =>
               Entries(rootFile) = SelectSeq(Entries(rootAtStart), LAMBDA e : e[1] # key)
          /\ pc = "end" =>
               /\ outcome = [kind |-> "removed", at |-> "removeDir"]
               /\ ~pkgDir[packageName]
               /\ pkgIndex[packageName] = Absent
               /\ files[packageName] = <<>>

\* C12 witness: a Remove has ended on a root index that listed two packages; the
\* other entry is left and the directory, which held an artifact, is gone.
C12_Witness ==
  /\ cmd = "remove" /\ pc = "end" /\ outcome.kind = "removed"
  /\ Len(Entries(rootAtStart)) = 2 /\ Len(Entries(rootFile)) = 1
  /\ filesAtStart # {}
  /\ ~pkgDir[packageName]

\* C13: a Remove of a package that is not a key of the root index: its one step
\* ends the command at line 428 with the report "not tracked" and without an
\* exception, and neither that step nor the exit of the process changes the
\* root index file, any directory, any package index or any artifact file.
C13_RemoveUntrackedNoOp ==
  [][ /\ ( /\ cmd = "remove" /\ pc = "removePackage"
           /\ [base |-> packageName, ext |-> ""] \notin Keys(rootFile) ) =>
             /\ UNCHANGED fsVars
             /\ cmd' = "remove" =>
                  /\ pc' = "end"
                  /\ outcome' = [kind |-> "not tracked", at |-> "removePackage"]
      /\ (cmd = "remove" /\ pc = "end" /\ outcome.kind = "not tracked") =>
             UNCHANGED fsVars
      /\ (cmd' = "remove" /\ pc' = "end" /\ outcome'.kind = "not tracked") =>
             [base |-> packageName, ext |-> ""] \notin Keys(rootFile) ]_vars

\* C13 witness: a Remove has ended with "not tracked" for a package whose
\* directory exists, on a root index that lists the other package.
C13_Witness ==
  /\ cmd = "remove" /\ pc = "end" /\ outcome.kind = "not tracked"
  /\ pkgDir[packageName]
  /\ Len(Entries(rootFile)) = 1
  /\ rootFile = rootAtStart

\* s is a subsequence of t: the elements of s appear in t in the order of s.
RECURSIVE IsSubseq(_, _)
IsSubseq(s, t) ==
  IF s = <<>> THEN TRUE
  ELSE IF t = <<>> THEN FALSE
  ELSE IF Head(s) = Head(t) THEN IsSubseq(Tail(s), Tail(t))
  ELSE IsSubseq(s, Tail(t))
\* The keys of packagesToDownload in the order the loop of line 190 fetches them.
PlanKeys == [i \in 1..Len(packagesToDownload) |-> packagesToDownload[i][1]]
\* The texts of the <a> elements of the remote document, in document order.
RemoteKeys ==
  LET aEntries == FindAllA(remoteHTML)
  IN [i \in 1..Len(aEntries) |-> aEntries[i].string]
\* The keys this run has written to the package index, in the order of the file
\* as of the last completed write.
AppendedKeys ==
  LET entries == Entries(committed)
      keys == [i \in 1..Len(entries) |-> entries[i][1]]
  IN SelectSeq(keys, LAMBDA k : k \in wroteNames)

C15_UpdateConverges ==
  ( /\ cmd = "update" /\ docFetch = "ok"
    /\ remoteFixed[packageName] # AnyDoc
    /\ \/ pc \in {"synchronize_plan", "download", "download_file",
                  "download_index", "download_index_write"}
       \/ pc = "end" /\ outcome.at # "synchronizeWithRemote" ) =>
     LET planned == DictKeys(packagesToDownload)
         filtered == DictKeys(getHRefsList(
                        filterInHTML(remoteFixed[packageName], packageName)))
     IN /\ planned = filtered \ Keys(docAtStart)
        /\ (planned \cap everCommitted[packageName]) \subseteq wroteNames
        /\ (pc = "end" /\ failNames = {}) =>
              /\ outcome.kind = "done"
              /\ filtered \subseteq Keys(pkgIndex[packageName])
        /\ filtered \subseteq Keys(docAtStart) => packagesToDownload = <<>>

\* C16: when a call of _getLink has returned success, the last response it
\* received has a 2xx status; a call whose last response has a 1xx, 3xx, 4xx or
\* 5xx status has returned a failure.
C16_SuccessOnly2xx ==
  (glpc = "done" /\ result.ok) =>
     (response.status >= 200 /\ response.status < 300)

\* C17: insertAEntry called with a text that is a key of the document returns
\* alreadyExisted = True and the document it was given; and inserting the same
\* (text, href) in the returned document once more returns that same document.
C17_InsertExistingKeepsDocument ==
  (callIn.fn = "insertAEntry" /\ Len(callOut) >= 1) =>
     /\ callIn.newEntryText \in Keys(callIn.htmlString) =>
          /\ callOut[1].existed
          /\ callOut[1].html = callIn.htmlString
     /\ Len(callOut) = 2 =>
          /\ callOut[2].existed /\ ~callOut[2].error
          /\ callOut[2].html = callOut[1].html

\* C18: with filtersEnabled = "yes", for a name that parses as a wheel and a
\* call that returned: if at least one rule of the settings matches the wheel
\* (__fulfillFilterCriteria is True for it), the wheel is included for mode "in"
\* and excluded for mode "out"; if no rule matches, it is excluded for "in" and
\* included for "out".
C18_ModeDecides ==
  ( /\ callIn.fn = "isValidWheel" /\ Len(callOut) = 1
    /\ callIn.wheelsConfig.filtersEnabled = "yes"
    /\ callIn.wheelName.parses
    /\ callOut[1] \in {"True", "False"} ) =>
     LET rules == callIn.wheelsConfig.rules
         matched == \E i \in 1..Len(rules) :
                      fulfillFilterCriteria(callIn.wheelName.parsed[rules[i][1]],
                                            rules[i][2], rules[i][1]) = "True"
         in == callIn.wheelsConfig.inOrOut = "in"
     IN callOut[1] = IF matched = in THEN "True" ELSE "False"

\* C18 witness: under mode "out" the second of two rules is the first to match,
\* and the wheel is excluded.
C18_Witness ==
  /\ callIn.fn = "isValidWheel" /\ Len(callOut) = 1
  /\ callIn.wheelsConfig.filtersEnabled = "yes"
  /\ callIn.wheelsConfig.inOrOut = "out"
  /\ callIn.wheelName.parses
  /\ Len(callIn.wheelsConfig.rules) = 2
  /\ LET rules == callIn.wheelsConfig.rules
         parsed == callIn.wheelName.parsed
     IN /\ fulfillFilterCriteria(parsed[rules[1][1]], rules[1][2], rules[1][1]) = "False"
        /\ fulfillFilterCriteria(parsed[rules[2][1]], rules[2][2], rules[2][1]) = "True"
  /\ callOut[1] = "False"

\* C19 as stated: with filtersEnabled = "no", isValidWheel returns True for
\* every name, wheel file name or not, whatever the rules and the mode.
C19_DisabledAcceptsEveryName ==
  ( /\ callIn.fn = "isValidWheel" /\ Len(callOut) = 1
    /\ callIn.wheelsConfig.filtersEnabled = "no" ) =>
     callOut[1] = "True"

\* C19 amended: with filtersEnabled = "no", isValidWheel returns True for every
\* name that parses as a wheel file name and False for every other name,
\* whatever the rules and the mode.
C19_DisabledAcceptsEveryWheel ==
  ( /\ callIn.fn = "isValidWheel" /\ Len(callOut) = 1
    /\ callIn.wheelsConfig.filtersEnabled = "no" ) =>
     callOut[1] = IF callIn.wheelName.parses THEN "True" ELSE "False"

\* C19 witness: filtering is disabled, the mode is "in", the one rule does not
\* match the wheel, and the wheel is accepted.
C19_Witness ==
  /\ callIn.fn = "isValidWheel" /\ Len(callOut) = 1
  /\ callIn.wheelsConfig.filtersEnabled = "no"
  /\ callIn.wheelsConfig.inOrOut = "in"
  /\ callIn.wheelName.parses
  /\ Len(callIn.wheelsConfig.rules) = 1
  /\ needToBeIncluded(callIn.wheelName.parsed, callIn.wheelsConfig) = "False"
  /\ callOut[1] = "True"

\* C20: with filtersEnabled = "yes", mode "in" and the single rule python_tags
\* "<=310", the wheel with the python tag py39 is included and the wheel with
\* py311 is excluded; and a rule of python_tags that is a comparison with a
\* number matches a wheel exactly when, for one of its python tags, the number
\* written in the tag compares true with the number of the rule.
C20_PythonTagComparison ==
  ( /\ callIn.fn = "isValidWheel" /\ Len(callOut) = 1
    /\ callIn.wheelsConfig.filtersEnabled = "yes"
    /\ callIn.wheelsConfig.inOrOut = "in"
    /\ callIn.wheelName.parses ) =>
     LET rules == callIn.wheelsConfig.rules
         tags == callIn.wheelName.parsed.python_tags
         TagNumber(tag) == DigitsValue(SelectSeq(tag, IsDigit))
         Compares(n, filter, m) ==
           IF Contains(filter, <<"<", "=">>) THEN n <= m
           ELSE IF Contains(filter, <<">", "=">>) THEN n >= m
           ELSE IF Contains(filter, <<"<">>) THEN n < m
           ELSE n > m
     IN /\ rules = << <<"python_tags", <<"<", "=", "3", "1", "0">>>> >> =>
             /\ tags.val = << <<"p", "y", "3", "9">> >> => callOut[1] = "True"
             /\ tags.val = << <<"p", "y", "3", "1", "1">> >> => callOut[1] = "False"
        /\ \A i \in 1..Len(rules) :
             ( /\ rules[i][1] = "python_tags"
               /\ ~Contains(rules[i][2], <<"~">>)
               /\ Contains(rules[i][2], <<"<">>) \/ Contains(rules[i][2], <<">">>)
               /\ getFilterVersion(getLiteralFilter(rules[i][2], "python_tags")).ok ) =>
               ( fulfillFilterCriteria(tags, rules[i][2], "python_tags") = "True"
                 <=> \E k \in 1..Len(tags.val) :
                       Compares(TagNumber(tags.val[k]), rules[i][2],
                                getFilterVersion(
                                  getLiteralFilter(rules[i][2], "python_tags")).v) )

\* C21: with filtersEnabled = "yes", mode "out" and the single rule
\* platform_tags "~win", the wheel with the platform tag win_amd64 is excluded
\* and the wheel with linux_x86_64 is included; and a rule with "~" on a list of
\* tags matches a wheel exactly when the literal of the rule is a substring of
\* one of the tags.
C21_ApproxOnTagList ==
  ( /\ callIn.fn = "isValidWheel" /\ Len(callOut) = 1
    /\ callIn.wheelsConfig.filtersEnabled = "yes"
    /\ callIn.wheelsConfig.inOrOut = "out"
    /\ callIn.wheelName.parses ) =>
     LET rules == callIn.wheelsConfig.rules
         parsed == callIn.wheelName.parsed
     IN /\ rules = << <<"platform_tags", <<"~", "w", "i", "n">>>> >> =>
             /\ parsed.platform_tags.val = << <<"w", "i", "n", "_", "a", "m", "d", "6", "4">> >>
                  => callOut[1] = "False"
             /\ parsed.platform_tags.val =
                  << <<"l", "i", "n", "u", "x", "_", "x", "8", "6", "_", "6", "4">> >>
                  => callOut[1] = "True"
        /\ \A i \in 1..Len(rules) :
             ( /\ parsed[rules[i][1]].type = "list"
               /\ Contains(rules[i][2], <<"~">>) ) =>
               ( fulfillFilterCriteria(parsed[rules[i][1]], rules[i][2], rules[i][1]) = "True"
                 <=> \E k \in 1..Len(parsed[rules[i][1]].val) :
                       Contains(parsed[rules[i][1]].val[k],
                                getLiteralFilter(rules[i][2], rules[i][1])) )

\* C22: a WheelsManager whose settings hold a rule with "<" or ">" on a field
\* other than python_tags is never constructed: __checkFilters refuses the
\* settings, so no isValidWheel is ever called under them.
C22_RejectedAtConstruction ==
  callIn.fn = "isValidWheel" =>
     \A i \in 1..Len(callIn.wheelsConfig.rules) :
        LET filterKey == callIn.wheelsConfig.rules[i][1]
            filter == callIn.wheelsConfig.rules[i][2]
        IN filterKey # "python_tags" =>
             ~(Contains(filter, <<"<">>) \/ Contains(filter, <<">">>))

\* The archives of one stem among the "a" elements of a document, in order.
ArchivesOf(html, stem) ==
  SelectSeq(FindAllA(html), LAMBDA a : /\ a.string.ext \in ArchiveExts
                                       /\ a.string.base = stem)

\* C23: of the archives of one stem that a remote document lists, exactly one
\* is in the filtered document: the .zip if the document lists one anywhere,
\* otherwise the archive of that stem that comes first in the document.
C23_OneArchivePerStem ==
  (callIn.fn = "filterInHTML" /\ Len(callOut) = 1) =>
     \A stem \in {"s", "t"} :
        LET listed == ArchivesOf(callIn.htmlContent, stem)
            kept == ArchivesOf(callOut[1], stem)
            zip == [base |-> stem, ext |-> "zip"]
        IN listed # <<>> =>
             /\ Len(kept) = 1
             /\ kept[1].string =
                  IF \E i \in 1..Len(listed) : listed[i].string = zip
                  THEN zip ELSE listed[1].string
\* C23's case: two tar variants of s come before its .zip, and the .zip is kept.
C23_Witness ==
  /\ callIn.fn = "filterInHTML" /\ Len(callOut) = 1
  /\ Len(ArchivesOf(callIn.htmlContent, "s")) = 3
  /\ ArchivesOf(callIn.htmlContent, "s")[1].string.ext = "tar.bz2"
  /\ ArchivesOf(callIn.htmlContent, "s")[3].string.ext = "zip"
  /\ Len(ArchivesOf(callOut[1], "s")) = 1
  /\ ArchivesOf(callOut[1], "s")[1].string.ext = "zip"

\* C24: a filtered document that holds a wheel of a distribution and version
\* holds no source archive of that distribution and version.
C24_NoArchiveBesideWheel ==
  (callIn.fn = "filterInHTML" /\ Len(callOut) = 1) =>
     LET kept == FindAllA(callOut[1])
     IN \A i, j \in 1..Len(kept) :
          (isValidWheel(kept[i].string) /\ kept[j].string.ext \in ArchiveExts)
             => ProjectVersion(kept[i].string) # ProjectVersion(kept[j].string)

\* C25: a document built by inserting and removing entries, once written and
\* read back, gives the entries put in it: the same texts with the same hrefs,
\* in the same order.
C25_ReadBackWhatWasWritten ==
  (callIn.fn = "document" /\ Len(callOut) = 1) => callOut[1] = callIn.d

\* C26: a call of _getLink in which every attempt fails issues no more
\* requests than its retries parameter says, for every value of retries, 0
\* included (where one request is allowed for): the call does not go on
\* requesting beyond that bound.
C26_AttemptsBoundedByRetries ==
  (glpc # "none" /\ firstNonRaise = NoOutcome) =>
     requests <= (IF retries >= 1 THEN retries ELSE 1)

\* C27: within one call of _getLink, the first attempt that does not raise
\* (a 200, or another status that raise_for_status accepts) is the last request
\* of the call: no request follows it, and the call returns success.
C27_FirstNonRaiseIsLastRequest ==
  (glpc # "none" /\ firstNonRaise # NoOutcome) =>
     /\ requests = prefixFails + 1
     /\ glpc = "done" => result.ok

\* C28: when an Add, Update or Remove has ended, every package that has an
\* entry in the root index has its index file in its directory.
C28_RootEntryHasPackageIndex ==
  (pc = "end" /\ rootFile # Absent) =>
     \A p \in Packages :
        PkgText(p) \in Keys(rootFile) => (pkgDir[p] /\ pkgIndex[p] # Absent)

\* C29: at every point of an Add or Update run, every entry that the package
\* index on disk lists has its artifact file in the package directory, written
\* in full and closed.
C29_ListedArtifactIsWritten ==
  (cmd \in {"add", "update"} /\ pkgIndex[packageName] # Absent) =>
     LET listed == pkgIndex[packageName].tags
         written == files[packageName]
     IN \A i \in 1..Len(listed) :
          listed[i].tag = "a" =>
             /\ listed[i].string \in DOMAIN written
             /\ written[listed[i].string] = "full"
\* C29's case: the index lists an artifact while the file of the next one is
\* open and not yet written.
C29_Witness ==
  /\ cmd \in {"add", "update"} /\ pc = "download_file"
  /\ pkgIndex[packageName] # Absent
  /\ Keys(pkgIndex[packageName]) # {}
  /\ \A fileName \in Keys(pkgIndex[packageName]) :
        /\ fileName \in DOMAIN files[packageName]
        /\ files[packageName][fileName] = "full"
  /\ \E fileName \in DOMAIN files[packageName] :
        /\ files[packageName][fileName] = "empty"
        /\ fileName \notin Keys(pkgIndex[packageName])
====
